---- MODULE Spec2Model ----
(***************************************************************************)
(* Model of simple-pdf-generator: the structure extractor                  *)
(* (utils/text_processor.py), the PDF renderer (utils/pdf_generator.py)    *)
(* and the request handler that composes them (app.py, main).              *)
(*                                                                         *)
(* Strings are sequences of Unicode code points (naturals), so that        *)
(* trimming, prefix tests, substring replacement and the ASCII test of the *)
(* sanitizer are computed as the code computes them.                       *)
(***************************************************************************)
EXTENDS Integers, Sequences, FiniteSets, TLC

\* ---------------------------------------------------------------- bounds
\* Lines per input text of a conversion request.
MaxLines == 3
\* Pieces concatenated to form an input of the sanitizer.
MaxPieces == 3
\* Add operations called on one renderer by the free-standing renderer driver.
MaxOps == 3

VARIABLES
    pc,                 \* position of the request in main / of the driver
    text,               \* text_input (the raw input text)
    is_markdown,        \* the markdown checkbox
    lines,              \* extract_structure: text.split('\n')
    idx,                \* extract_structure: lines consumed by the for loop
    structure,          \* extract_structure: the dict being built
    current_paragraph,  \* extract_structure: lines of the open paragraph
    in_list,            \* extract_structure: whether a list is open
    list_items,         \* extract_structure: items of the open list
    emitted,            \* history: the blocks in the order they were appended
    font,               \* FPDF: current font (style, size)
    page,               \* FPDF: the cells written so far, each with its font
    calls,              \* history: the add_* calls made on the renderer
    replayed,           \* add_content_from_structure: blocks replayed so far
    env,                \* environment of generate_pdf's writes
    disk,               \* what is stored at output_path
    result,             \* generate_pdf's return value
    error,              \* the exception that escaped, "none" if none
    san                 \* successive results of sanitize_text on text

vars == <<pc, text, is_markdown, lines, idx, structure, current_paragraph,
          in_list, list_items, emitted, font, page, calls, replayed, env,
          disk, result, error, san>>

extractVars == <<lines, idx, structure, current_paragraph, in_list,
                 list_items, emitted>>
pdfVars == <<font, page, calls>>
outVars == <<env, disk, result>>

\* ------------------------------------------------------- string helpers

\* The code points str.strip() removes (Python's Unicode whitespace).
Whitespace ==
    {9, 10, 11, 12, 13, 28, 29, 30, 31, 32, 133, 160, 5760, 8232, 8233,
     8239, 8287, 12288} \cup (8192..8202)

RECURSIVE LStrip(_)
LStrip(s) ==
    IF s # <<>> /\ Head(s) \in Whitespace THEN LStrip(Tail(s)) ELSE s

RECURSIVE RStrip(_)
RStrip(s) ==
    IF s # <<>> /\ s[Len(s)] \in Whitespace
    THEN RStrip(SubSeq(s, 1, Len(s) - 1))
    ELSE s

\* str.strip()
Strip(s) == RStrip(LStrip(s))

\* str.startswith(prefix)
StartsWith(s, prefix) ==
    /\ Len(s) >= Len(prefix)
    /\ SubSeq(s, 1, Len(prefix)) = prefix

\* s[n:]
Drop(s, n) == SubSeq(s, n + 1, Len(s))

\* str.split('\n'): the pieces between line feeds; always at least one piece.
RECURSIVE SplitFrom(_, _)
SplitFrom(s, cur) ==
    IF s = <<>> THEN <<cur>>
    ELSE IF Head(s) = 10 THEN <<cur>> \o SplitFrom(Tail(s), <<>>)
    ELSE SplitFrom(Tail(s), Append(cur, Head(s)))

Split(s) == SplitFrom(s, <<>>)

\* sep.join(parts)
RECURSIVE Join(_, _)
Join(parts, sep) ==
    IF parts = <<>> THEN <<>>
    ELSE IF Len(parts) = 1 THEN parts[1]
    ELSE parts[1] \o sep \o Join(Tail(parts), sep)

\* ''.join(current_paragraph): the lines run together.
JoinWithoutSeparator(parts) == Join(parts, <<>>)

\* ' '.join(current_paragraph)
JoinSpace(parts) == Join(parts, <<32>>)

\* str.replace(old, new) for a non-empty old: leftmost, non-overlapping.
RECURSIVE Replace(_, _, _)
Replace(s, old, new) ==
    IF Len(s) < Len(old) THEN s
    ELSE IF SubSeq(s, 1, Len(old)) = old
         THEN new \o Replace(Drop(s, Len(old)), old, new)
         ELSE <<Head(s)>> \o Replace(Tail(s), old, new)

\* str(n) for a natural n, as in the f-string f"Heading level {level}".
RECURSIVE Str(_)
Str(n) ==
    IF n < 10 THEN <<48 + n>>
    ELSE Str(n \div 10) \o <<48 + (n % 10)>>

\* ------------------------------------------ pdf_generator.py: sanitizer

\* self.heading_sizes.get(level, 12)
heading_sizes(level) ==
    CASE level = 1 -> 24
      [] level = 2 -> 20
      [] level = 3 -> 16
      [] level = 4 -> 14
      [] level = 5 -> 12
      [] level = 6 -> 12
      [] OTHER -> 12

\* self.char_replacements as the dict literal builds it, in insertion order.
\* Lines 39-40 of the source open and close a triple-quoted string, so the
\* literal's fourth key is the 43-character string between them (colon,
\* space, double quote, apostrophe, double quote, comma, the comment text, a
\* line feed and twelve spaces), mapped to an apostrophe.  The key of lines
\* 41 and 42 is the ASCII double quote, one entry, mapped to itself.
char_replacements ==
    << [char |-> <<8226>>, replacement |-> <<45>>],
       [char |-> <<8211>>, replacement |-> <<45>>],
       [char |-> <<8212>>, replacement |-> <<45>>],
       [char |-> <<58, 32, 34, 39, 34, 44, 32, 32, 35, 32, 82, 101, 112, 108,
                   97, 99, 101, 32, 115, 109, 97, 114, 116, 32, 113, 117,
                   111, 116, 101, 115, 10, 32, 32, 32, 32, 32, 32, 32, 32,
                   32, 32, 32, 32>>,
        replacement |-> <<39>>],
       [char |-> <<34>>, replacement |-> <<34>>],
       [char |-> <<8230>>, replacement |-> <<46, 46, 46>>],
       [char |-> <<8804>>, replacement |-> <<60, 61>>],
       [char |-> <<8805>>, replacement |-> <<62, 61>>],
       [char |-> <<169>>, replacement |-> <<40, 99, 41>>],
       [char |-> <<174>>, replacement |-> <<40, 82, 41>>],
       [char |-> <<8482>>, replacement |-> <<40, 84, 77, 41>>],
       [char |-> <<176>>,
        replacement |-> <<32, 100, 101, 103, 114, 101, 101, 115>>],
       [char |-> <<177>>, replacement |-> <<43, 47, 45>>],
       [char |-> <<215>>, replacement |-> <<120>>],
       [char |-> <<247>>, replacement |-> <<47>>],
       [char |-> <<189>>, replacement |-> <<49, 47, 50>>],
       [char |-> <<188>>, replacement |-> <<49, 47, 52>>],
       [char |-> <<190>>, replacement |-> <<51, 47, 52>>] >>

\* for char, replacement in self.char_replacements.items():
\*     text = text.replace(char, replacement)
RECURSIVE ReplaceKnown(_, _)
ReplaceKnown(s, k) ==
    IF k > Len(char_replacements) THEN s
    ELSE ReplaceKnown(
             Replace(s, char_replacements[k].char,
                     char_replacements[k].replacement),
             k + 1)

\* self.char_replacements.get(char, ' ') for a single character
GetReplacement(c) ==
    IF \E k \in 1..Len(char_replacements) : char_replacements[k].char = <<c>>
    THEN LET k == CHOOSE j \in 1..Len(char_replacements) :
                      char_replacements[j].char = <<c>>
         IN char_replacements[k].replacement
    ELSE <<32>>

\* The second loop's step with the ASCII test left out.
SanitizeCharKeepingAll(c) == <<c>>

\* What the second loop of sanitize_text appends for one character.
SanitizeChar(c) ==
    IF c < 128 THEN <<c>> ELSE GetReplacement(c)

RECURSIVE ReplaceRemaining(_)
ReplaceRemaining(s) ==
    IF s = <<>> THEN <<>>
    ELSE SanitizeChar(Head(s)) \o ReplaceRemaining(Tail(s))

\* PDFGenerator.sanitize_text
sanitize_text(s) == ReplaceRemaining(ReplaceKnown(s, 1))

\* ------------------------------------- text_processor.py: extract_structure

EmptyStructure == [headings |-> <<>>, paragraphs |-> <<>>, lists |-> <<>>]

\* Blocks in one shape, for the histories and for comparing orders.
HeadingBlock(level, t) ==
    [kind |-> "heading", level |-> level, text |-> t, items |-> <<>>]
ParagraphBlock(t) ==
    [kind |-> "paragraph", level |-> 0, text |-> t, items |-> <<>>]
ListBlock(items) ==
    [kind |-> "list", level |-> 0, text |-> <<>>, items |-> items]
TextBlock(t) ==
    [kind |-> "text", level |-> 0, text |-> t, items |-> <<>>]

\* line.startswith('#')
IsHeadingLine(line) == StartsWith(line, <<35>>)

\* line.startswith('- ') or line.startswith('* ') or line.startswith('+ ')
IsListItemLine(line) ==
    \/ StartsWith(line, <<45, 32>>)
    \/ StartsWith(line, <<42, 32>>)
    \/ StartsWith(line, <<43, 32>>)

\* The number of leading '#' of a line.
RECURSIVE CountHashes(_)
CountHashes(line) ==
    IF line # <<>> /\ Head(line) = 35 THEN 1 + CountHashes(Tail(line)) ELSE 0

\* process_text
process_text(t) == Strip(t)

\* lines 34-43: split the text, start with an empty structure.
ExtractBegin ==
    /\ pc = "start"
    /\ is_markdown
    /\ lines' = Split(text)
    /\ idx' = 0
    /\ structure' = EmptyStructure
    /\ current_paragraph' = <<>>
    /\ in_list' = FALSE
    /\ list_items' = <<>>
    /\ emitted' = <<>>
    /\ pc' = "scan"
    /\ UNCHANGED <<text, is_markdown, pdfVars, replayed, outVars, error, san>>

\* lines 45-100: one iteration of the for loop.
ExtractLine ==
    /\ pc = "scan"
    /\ idx < Len(lines)
    /\ LET line == Strip(lines[idx + 1])
           paraOpen == current_paragraph # <<>>
           para == JoinSpace(current_paragraph)
           parasFlushed ==
               IF paraOpen THEN Append(structure.paragraphs, para)
               ELSE structure.paragraphs
           listsFlushed ==
               IF in_list THEN Append(structure.lists, list_items)
               ELSE structure.lists
           paraEmit == IF paraOpen THEN <<ParagraphBlock(para)>> ELSE <<>>
           listEmit == IF in_list THEN <<ListBlock(list_items)>> ELSE <<>>
       IN
       IF IsHeadingLine(line) THEN
           LET level == CountHashes(line)
               heading_text == Strip(Drop(line, level))
           IN
           /\ structure' =
                  [headings |-> Append(structure.headings,
                                       [level |-> level, text |-> heading_text]),
                   paragraphs |-> parasFlushed,
                   lists |-> listsFlushed]
           /\ current_paragraph' = <<>>
           /\ list_items' = IF in_list THEN <<>> ELSE list_items
           /\ in_list' = FALSE
           /\ emitted' = emitted \o paraEmit \o listEmit
                             \o <<HeadingBlock(level, heading_text)>>
       ELSE IF IsListItemLine(line) THEN
           /\ structure' = [structure EXCEPT !.paragraphs = parasFlushed]
           /\ current_paragraph' = <<>>
           /\ in_list' = TRUE
           /\ list_items' = Append(list_items, Strip(Drop(line, 2)))
           /\ emitted' = emitted \o paraEmit
       ELSE IF line = <<>> THEN
           /\ structure' = [structure EXCEPT !.paragraphs = parasFlushed,
                                             !.lists = listsFlushed]
           /\ current_paragraph' = <<>>
           /\ list_items' = IF in_list THEN <<>> ELSE list_items
           /\ in_list' = FALSE
           /\ emitted' = emitted \o paraEmit \o listEmit
       ELSE
           /\ structure' = [structure EXCEPT !.lists = listsFlushed]
           /\ list_items' = IF in_list THEN <<>> ELSE list_items
           /\ in_list' = FALSE
           /\ current_paragraph' = Append(current_paragraph, line)
           /\ emitted' = emitted \o listEmit
    /\ idx' = idx + 1
    /\ UNCHANGED <<pc, text, is_markdown, lines, pdfVars, replayed, outVars,
                   error, san>>

\* Lines 102-109 with the remaining list dropped instead of appended.
ExtractEndDroppingOpenList ==
    /\ pc = "scan"
    /\ idx = Len(lines)
    /\ structure' =
           [structure EXCEPT
               !.paragraphs =
                   IF current_paragraph # <<>>
                   THEN Append(structure.paragraphs,
                               JoinSpace(current_paragraph))
                   ELSE structure.paragraphs]
    /\ emitted' = emitted
                    \o (IF current_paragraph # <<>>
                        THEN <<ParagraphBlock(JoinSpace(current_paragraph))>>
                        ELSE <<>>)
    /\ pc' = "extracted"
    /\ UNCHANGED <<text, is_markdown, lines, idx, current_paragraph, in_list,
                   list_items, pdfVars, replayed, outVars, error, san>>

\* lines 102-109: add any remaining content, return the structure.
ExtractEnd ==
    /\ pc = "scan"
    /\ idx = Len(lines)
    /\ structure' =
           [structure EXCEPT
               !.paragraphs =
                   IF current_paragraph # <<>>
                   THEN Append(structure.paragraphs,
                               JoinSpace(current_paragraph))
                   ELSE structure.paragraphs,
               !.lists =
                   IF in_list THEN Append(structure.lists, list_items)
                   ELSE structure.lists]
    /\ emitted' = emitted
                    \o (IF current_paragraph # <<>>
                        THEN <<ParagraphBlock(JoinSpace(current_paragraph))>>
                        ELSE <<>>)
                    \o (IF in_list THEN <<ListBlock(list_items)>> ELSE <<>>)
    /\ pc' = "extracted"
    /\ UNCHANGED <<text, is_markdown, lines, idx, current_paragraph, in_list,
                   list_items, pdfVars, replayed, outVars, error, san>>

\* ------------------------------------------ pdf_generator.py: PDFGenerator

\* self.pdf.set_font("Arial", size=12)
BodyFont == [style |-> "", size |-> 12]

\* self.pdf.set_font("Arial", "B", size=size)
BoldFont(size) == [style |-> "B", size |-> size]

\* One cell / multi_cell the backend accepted: its text, the font in force
\* and the add operation that wrote it.
Cell(txt, f, by) == [txt |-> txt, font |-> f, by |-> by]

\* f"Heading level {level}"
HeadingPlaceholder(level) ==
    <<72, 101, 97, 100, 105, 110, 103, 32, 108, 101, 118, 101, 108, 32>>
        \o Str(level)

\* "[Text contains unsupported characters]"
TextPlaceholder ==
    <<91, 84, 101, 120, 116, 32, 99, 111, 110, 116, 97, 105, 110, 115, 32,
      117, 110, 115, 117, 112, 112, 111, 114, 116, 101, 100, 32, 99, 104,
      97, 114, 97, 99, 116, 101, 114, 115, 93>>

\* "[Item contains unsupported characters]"
ItemPlaceholder ==
    <<91, 73, 116, 101, 109, 32, 99, 111, 110, 116, 97, 105, 110, 115, 32,
      117, 110, 115, 117, 112, 112, 111, 114, 116, 101, 100, 32, 99, 104,
      97, 114, 97, 99, 116, 101, 114, 115, 93>>

\* The two lines of the error PDF.
ErrorLine1 ==
    <<69, 114, 114, 111, 114, 32, 103, 101, 110, 101, 114, 97, 116, 105,
      110, 103, 32, 80, 68, 70, 32, 119, 105, 116, 104, 32, 116, 104, 101,
      32, 112, 114, 111, 118, 105, 100, 101, 100, 32, 99, 111, 110, 116,
      101, 110, 116, 46>>
ErrorLine2 ==
    <<84, 104, 101, 32, 99, 111, 110, 116, 101, 110, 116, 32, 109, 97, 121,
      32, 99, 111, 110, 116, 97, 105, 110, 32, 117, 110, 115, 117, 112,
      112, 111, 114, 116, 101, 100, 32, 99, 104, 97, 114, 97, 99, 116, 101,
      114, 115, 46>>

\* How the backend answers the write of one block's text and, when that
\* fails, the write of its placeholder in the except clause:
\*   "ok"          the text is written;
\*   "placeholder" the text write raises, the placeholder is written;
\*   "raise"       both raise: the second exception leaves the method.
WriteOutcomes == {"ok", "placeholder", "raise"}

\* For a list item the marker cell, written outside the try, may raise too.
ItemOutcomes == WriteOutcomes \cup {"raise_marker"}

\* add_heading with the font left as the heading set it.
add_heading_keeping_font(t, level, outcome) ==
    LET bold == BoldFont(heading_sizes(level))
        safe_text == sanitize_text(t)
    IN
    /\ calls' = Append(calls, HeadingBlock(level, t))
    /\ font' = bold
    /\ page' = IF outcome = "ok"
               THEN Append(page, Cell(safe_text, bold, "heading"))
               ELSE IF outcome = "placeholder"
               THEN Append(page, Cell(HeadingPlaceholder(level), bold,
                                      "heading"))
               ELSE page
    /\ error' = IF outcome = "raise" THEN "add_heading" ELSE "none"

\* PDFGenerator.add_heading
add_heading(t, level, outcome) ==
    LET bold == BoldFont(heading_sizes(level))
        safe_text == sanitize_text(t)
    IN
    /\ calls' = Append(calls, HeadingBlock(level, t))
    /\ CASE outcome = "ok" ->
              /\ page' = Append(page, Cell(safe_text, bold, "heading"))
              /\ font' = BodyFont
              /\ error' = "none"
         [] outcome = "placeholder" ->
              /\ page' = Append(page, Cell(HeadingPlaceholder(level), bold,
                                           "heading"))
              /\ font' = BodyFont
              /\ error' = "none"
         [] outcome = "raise" ->
              /\ page' = page
              /\ font' = bold
              /\ error' = "add_heading"

\* PDFGenerator.add_paragraph
add_paragraph(t, outcome) ==
    LET safe_text == sanitize_text(t)
    IN
    /\ calls' = Append(calls, ParagraphBlock(t))
    /\ font' = BodyFont
    /\ CASE outcome = "ok" ->
              /\ page' = Append(page, Cell(safe_text, BodyFont, "paragraph"))
              /\ error' = "none"
         [] outcome = "placeholder" ->
              /\ page' = Append(page, Cell(TextPlaceholder, BodyFont,
                                           "paragraph"))
              /\ error' = "none"
         [] outcome = "raise" ->
              /\ page' = page
              /\ error' = "add_paragraph"

\* The cells add_list's loop writes from item k on, up to the first
\* exception that leaves the method.
RECURSIVE ListCells(_, _, _)
ListCells(items, outcome, k) ==
    IF k > Len(items) \/ outcome[k] = "raise_marker" THEN <<>>
    ELSE LET marker == Cell(<<45>>, BodyFont, "list")
         IN CASE outcome[k] = "ok" ->
                   <<marker, Cell(sanitize_text(items[k]), BodyFont, "list")>>
                       \o ListCells(items, outcome, k + 1)
              [] outcome[k] = "placeholder" ->
                   <<marker, Cell(ItemPlaceholder, BodyFont, "list")>>
                       \o ListCells(items, outcome, k + 1)
              [] outcome[k] = "raise" -> <<marker>>

\* PDFGenerator.add_list; outcome[k] is the backend's answer for item k.
add_list(items, outcome) ==
    /\ calls' = Append(calls, ListBlock(items))
    /\ font' = BodyFont
    /\ page' = page \o ListCells(items, outcome, 1)
    /\ error' = IF \E k \in 1..Len(items) :
                       outcome[k] \in {"raise", "raise_marker"}
                THEN "add_list"
                ELSE "none"

\* PDFGenerator.add_text
add_text(t, outcome) ==
    LET safe_text == sanitize_text(t)
    IN
    /\ calls' = Append(calls, TextBlock(t))
    /\ font' = font
    /\ CASE outcome = "ok" ->
              /\ page' = Append(page, Cell(safe_text, font, "text"))
              /\ error' = "none"
         [] outcome = "placeholder" ->
              /\ page' = Append(page, Cell(TextPlaceholder, font, "text"))
              /\ error' = "none"
         [] outcome = "raise" ->
              /\ page' = page
              /\ error' = "add_text"

\* The environment of one generate_pdf call:
\*   temp    whether tempfile.mkstemp can create the file;
\*   first   how self.pdf.output(output_path) ends: written, refused for the
\*           document's content, or refused by the output location;
\*   second  how error_pdf.output(output_path) ends (its content is the two
\*           fixed ASCII lines, so only the location can refuse it).
\* "-" marks a call that is not reached.
GenEnvs ==
    {[temp |-> "fail", first |-> "-", second |-> "-"],
     [temp |-> "ok", first |-> "ok", second |-> "-"]}
    \cup
    {[temp |-> "ok", first |-> f, second |-> s] :
        f \in {"content", "location"}, s \in {"ok", "location"}}

NoFile == [kind |-> "absent", cells |-> <<>>]
EmptyFile == [kind |-> "empty", cells |-> <<>>]
ErrorPdf ==
    [kind |-> "pdf",
     cells |-> <<Cell(ErrorLine1, BodyFont, "error"),
                 Cell(ErrorLine2, BodyFont, "error")>>]

\* generate_pdf without the except clause: a failed output leaves the method.
generate_pdf_without_fallback(e) ==
    /\ env' = e
    /\ IF e.temp = "ok" /\ e.first = "ok" THEN
           /\ disk' = [kind |-> "pdf", cells |-> page]
           /\ result' = "output_path"
           /\ error' = "none"
       ELSE
           /\ disk' = IF e.temp = "fail" THEN NoFile ELSE EmptyFile
           /\ result' = "none"
           /\ error' = "generate_pdf"

\* generate_pdf whose handler treats a failed error PDF like a written one.
generate_pdf_swallowing(e) ==
    /\ env' = e
    /\ IF e.temp = "fail" THEN
           /\ disk' = NoFile
           /\ result' = "none"
           /\ error' = "generate_pdf"
       ELSE
           /\ disk' = IF e.first = "ok"
                      THEN [kind |-> "pdf", cells |-> page]
                      ELSE IF e.second = "ok" THEN ErrorPdf ELSE EmptyFile
           /\ result' = "output_path"
           /\ error' = "none"

\* PDFGenerator.generate_pdf(output_path=None)
generate_pdf(e) ==
    /\ env' = e
    /\ IF e.temp = "fail" THEN
           \* mkstemp raises: no file, the exception leaves the method
           /\ disk' = NoFile
           /\ result' = "none"
           /\ error' = "generate_pdf"
       ELSE IF e.first = "ok" THEN
           /\ disk' = [kind |-> "pdf", cells |-> page]
           /\ result' = "output_path"
           /\ error' = "none"
       ELSE IF e.second = "ok" THEN
           /\ disk' = ErrorPdf
           /\ result' = "output_path"
           /\ error' = "none"
       ELSE
           \* the error PDF's output raises inside the except clause
           /\ disk' = EmptyFile
           /\ result' = "none"
           /\ error' = "generate_pdf"

\* ------------------------------------------------------- app.py: main

\* The loops of add_content_from_structure run over the headings, then the
\* paragraphs, then the lists; replayed counts the add_* calls made so far.
NumHeadings == Len(structure.headings)
NumParagraphs == Len(structure.paragraphs)
NumLists == Len(structure.lists)

\* for heading in structure['headings']: self.add_heading(...)
ReplayHeading ==
    /\ pc = "extracted"
    /\ replayed < NumHeadings
    /\ LET heading == structure.headings[replayed + 1]
       IN \E outcome \in WriteOutcomes :
              add_heading(heading.text, heading.level, outcome)
    /\ replayed' = replayed + 1
    /\ pc' = IF error' = "none" THEN "extracted" ELSE "failed"
    /\ UNCHANGED <<text, is_markdown, extractVars, outVars, san>>

\* for paragraph in structure['paragraphs']: self.add_paragraph(paragraph)
ReplayParagraph ==
    /\ pc = "extracted"
    /\ replayed >= NumHeadings
    /\ replayed < NumHeadings + NumParagraphs
    /\ LET paragraph == structure.paragraphs[replayed - NumHeadings + 1]
       IN \E outcome \in WriteOutcomes : add_paragraph(paragraph, outcome)
    /\ replayed' = replayed + 1
    /\ pc' = IF error' = "none" THEN "extracted" ELSE "failed"
    /\ UNCHANGED <<text, is_markdown, extractVars, outVars, san>>

\* for list_items in structure['lists']: self.add_list(list_items)
ReplayList ==
    /\ pc = "extracted"
    /\ replayed >= NumHeadings + NumParagraphs
    /\ replayed < NumHeadings + NumParagraphs + NumLists
    /\ LET items == structure.lists[replayed - NumHeadings - NumParagraphs + 1]
       IN \E outcome \in [1..Len(items) -> ItemOutcomes] :
              add_list(items, outcome)
    /\ replayed' = replayed + 1
    /\ pc' = IF error' = "none" THEN "extracted" ELSE "failed"
    /\ UNCHANGED <<text, is_markdown, extractVars, outVars, san>>

\* main, lines 79-82: the plain-text path.
AddPlainText ==
    /\ pc = "start"
    /\ ~is_markdown
    /\ \E outcome \in WriteOutcomes : add_text(process_text(text), outcome)
    /\ pc' = IF error' = "none" THEN "added" ELSE "failed"
    /\ UNCHANGED <<text, is_markdown, extractVars, replayed, outVars, san>>

\* main, line 85: temp_pdf_path = pdf_generator.generate_pdf()
GeneratePdf ==
    /\ \/ pc = "added"
       \/ /\ pc = "extracted"
          /\ replayed = NumHeadings + NumParagraphs + NumLists
    /\ \E e \in GenEnvs : generate_pdf(e)
    /\ pc' = IF error' = "none" THEN "generated" ELSE "failed"
    /\ UNCHANGED <<text, is_markdown, extractVars, pdfVars, replayed, san>>

\* main, lines 88-92: st.success and the download link.
ReportSuccess ==
    /\ pc = "generated"
    /\ pc' = "success"
    /\ UNCHANGED <<text, is_markdown, extractVars, pdfVars, replayed, outVars,
                   error, san>>

\* ------------------------------------------------------------- inputs

\* Source lines a request's text is made of:
\*   "", " ", "## H", "#", "- x", "* b", "+ c", "y", " z "
LineLibrary ==
    { <<>>, <<32>>, <<35, 35, 32, 72>>, <<35>>,
      <<45, 32, 120>>, <<42, 32, 98>>, <<43, 32, 99>>, <<121>>,
      <<32, 122, 32>> }

\* The texts of 1..MaxLines library lines joined by line feeds; the empty
\* text is refused by main (line 70) before the core is called.
InputTexts ==
    { Join(ls, <<10>>) :
        ls \in UNION { [1..n -> LineLibrary] : n \in 1..MaxLines } }
    \ { <<>> }

\* State shared by the initial states: a fresh PDFGenerator (__init__), no
\* extraction under way, nothing written.
Fresh ==
    /\ lines = <<>>
    /\ idx = 0
    /\ structure = EmptyStructure
    /\ current_paragraph = <<>>
    /\ in_list = FALSE
    /\ list_items = <<>>
    /\ emitted = <<>>
    /\ font = BodyFont
    /\ page = <<>>
    /\ calls = <<>>
    /\ replayed = 0
    /\ env = [temp |-> "-", first |-> "-", second |-> "-"]
    /\ disk = NoFile
    /\ result = "none"
    /\ error = "none"
    /\ san = <<>>

\* One conversion request: main is entered with a text and the checkbox.
Init ==
    /\ pc = "start"
    /\ text \in InputTexts
    /\ is_markdown \in BOOLEAN
    /\ Fresh

Next ==
    \/ ExtractBegin
    \/ ExtractLine
    \/ ExtractEnd
    \/ ReplayHeading
    \/ ReplayParagraph
    \/ ReplayList
    \/ AddPlainText
    \/ GeneratePdf
    \/ ReportSuccess

Spec == Init /\ [][Next]_vars

\* ------------------------------------- a renderer under arbitrary callers

\* What a caller passes: the text "c" + e-acute + en dash, a level with its
\* own size and one without, lists of one and of two items.
DriverTexts == { <<99, 233, 8211>> }
DriverLevels == {1, 7}
DriverLists == { <<t>> : t \in DriverTexts } \cup { <<t, t>> : t \in DriverTexts }

CanAdd == pc = "idle" /\ Len(calls) < MaxOps

DriverAddHeading ==
    /\ CanAdd
    /\ \E t \in DriverTexts, level \in DriverLevels, outcome \in WriteOutcomes :
           add_heading(t, level, outcome)
    /\ pc' = IF error' = "none" THEN "idle" ELSE "failed"
    /\ UNCHANGED <<text, is_markdown, extractVars, replayed, outVars, san>>

DriverAddParagraph ==
    /\ CanAdd
    /\ \E t \in DriverTexts, outcome \in WriteOutcomes :
           add_paragraph(t, outcome)
    /\ pc' = IF error' = "none" THEN "idle" ELSE "failed"
    /\ UNCHANGED <<text, is_markdown, extractVars, replayed, outVars, san>>

DriverAddList ==
    /\ CanAdd
    /\ \E items \in DriverLists :
           \E outcome \in [1..Len(items) -> ItemOutcomes] :
               add_list(items, outcome)
    /\ pc' = IF error' = "none" THEN "idle" ELSE "failed"
    /\ UNCHANGED <<text, is_markdown, extractVars, replayed, outVars, san>>

DriverAddText ==
    /\ CanAdd
    /\ \E t \in DriverTexts, outcome \in WriteOutcomes : add_text(t, outcome)
    /\ pc' = IF error' = "none" THEN "idle" ELSE "failed"
    /\ UNCHANGED <<text, is_markdown, extractVars, replayed, outVars, san>>

DriverGeneratePdf ==
    /\ pc = "idle"
    /\ \E e \in GenEnvs : generate_pdf(e)
    /\ pc' = IF error' = "none" THEN "generated" ELSE "failed"
    /\ UNCHANGED <<text, is_markdown, extractVars, pdfVars, replayed, san>>

InitRenderer ==
    /\ pc = "idle"
    /\ text = <<>>
    /\ is_markdown = FALSE
    /\ Fresh

NextRenderer ==
    \/ DriverAddHeading
    \/ DriverAddParagraph
    \/ DriverAddList
    \/ DriverAddText
    \/ DriverGeneratePdf

SpecRenderer == InitRenderer /\ [][NextRenderer]_vars

\* ------------------------------------------------ the sanitizer alone

\* Pieces an input of sanitize_text is concatenated from: the fourth key of
\* the table, its part before and its part after the apostrophe, an
\* apostrophe, a double quote, DEL (the last ASCII code point), and the
\* non-ASCII characters bullet and degree sign (in the table), U+0080 and the
\* right single quotation mark (not in the table).
SanitizerPieces ==
    { char_replacements[4].char,
      <<58, 32, 34>>,
      <<34, 44, 32, 32, 35, 32, 82, 101, 112, 108, 97, 99, 101, 32, 115,
        109, 97, 114, 116, 32, 113, 117, 111, 116, 101, 115, 10, 32, 32, 32,
        32, 32, 32, 32, 32, 32, 32, 32, 32>>,
      <<39>>, <<34>>, <<127>>, <<8226>>, <<176>>, <<128>>, <<8217>> }

SanitizerInputs ==
    { Join(ps, <<>>) :
        ps \in UNION { [1..n -> SanitizerPieces] : n \in 0..MaxPieces } }

\* sanitize_text applied to the text, then to its own result.
Sanitize ==
    /\ pc = "sanitize"
    /\ Len(san) < 2
    /\ san' = Append(san, sanitize_text(IF san = <<>> THEN text
                                        ELSE san[Len(san)]))
    /\ UNCHANGED <<pc, text, is_markdown, extractVars, pdfVars, replayed,
                   outVars, error>>

InitSanitize ==
    /\ pc = "sanitize"
    /\ text \in SanitizerInputs
    /\ is_markdown = FALSE
    /\ Fresh

NextSanitize == Sanitize

SpecSanitize == InitSanitize /\ [][NextSanitize]_vars

\* ------------------------------------------------------------- claims

\* The blocks of the returned structure in the order the dict presents
\* them, which is the order add_content_from_structure consumes them in.
RECURSIVE HeadingBlocks(_)
HeadingBlocks(hs) ==
    IF hs = <<>> THEN <<>>
    ELSE <<HeadingBlock(hs[1].level, hs[1].text)>> \o HeadingBlocks(Tail(hs))

RECURSIVE ParagraphBlocks(_)
ParagraphBlocks(ps) ==
    IF ps = <<>> THEN <<>>
    ELSE <<ParagraphBlock(ps[1])>> \o ParagraphBlocks(Tail(ps))

RECURSIVE ListBlocks(_)
ListBlocks(ls) ==
    IF ls = <<>> THEN <<>>
    ELSE <<ListBlock(ls[1])>> \o ListBlocks(Tail(ls))

StructureBlocks ==
    HeadingBlocks(structure.headings)
        \o ParagraphBlocks(structure.paragraphs)
        \o ListBlocks(structure.lists)

\* The text "- x\ny\n## H".
ListTextHeading == <<45, 32, 120, 10, 121, 10, 35, 35, 32, 72>>

\* extract_structure has returned (the markdown path of main).
ExtractDone == is_markdown /\ pc \in {"extracted", "generated", "success"}

\* C1: when extract_structure has returned, the blocks of its result are in
\* the order in which the scan emitted them (the order of their source
\* lines), and for "- x\ny\n## H" they are the list ["x"], the paragraph
\* "y", the level-2 heading "H", in that order.
C1_BlocksInSourceOrder ==
    ExtractDone =>
        /\ StructureBlocks = emitted
        /\ text = ListTextHeading =>
               StructureBlocks = << ListBlock(<< <<120>> >>),
                                    ParagraphBlock(<<121>>),
                                    HeadingBlock(2, <<72>>) >>

\* add_content_from_structure has returned.
ReplayDone ==
    /\ ExtractDone
    /\ replayed = NumHeadings + NumParagraphs + NumLists

\* C2: when add_content_from_structure has returned, the add_* calls it made
\* are one per block, in the order of the blocks in the source text.
C2_CallsInSourceOrder ==
    ReplayDone => calls = emitted

\* The contents of the lines of each kind, in source order.
RECURSIVE HeadingsOfLines(_)
HeadingsOfLines(ls) ==
    IF ls = <<>> THEN <<>>
    ELSE LET line == Strip(Head(ls))
         IN (IF IsHeadingLine(line)
             THEN << [level |-> CountHashes(line),
                      text |-> Strip(Drop(line, CountHashes(line)))] >>
             ELSE <<>>)
            \o HeadingsOfLines(Tail(ls))

RECURSIVE ItemsOfLines(_)
ItemsOfLines(ls) ==
    IF ls = <<>> THEN <<>>
    ELSE LET line == Strip(Head(ls))
         IN (IF ~IsHeadingLine(line) /\ IsListItemLine(line)
             THEN <<Strip(Drop(line, 2))>>
             ELSE <<>>)
            \o ItemsOfLines(Tail(ls))

IsPlainLine(line) ==
    /\ line # <<>>
    /\ ~IsHeadingLine(line)
    /\ ~IsListItemLine(line)

RECURSIVE PlainOfLines(_)
PlainOfLines(ls) ==
    IF ls = <<>> THEN <<>>
    ELSE LET line == Strip(Head(ls))
         IN (IF IsPlainLine(line) THEN <<line>> ELSE <<>>)
            \o PlainOfLines(Tail(ls))

RECURSIVE Flatten(_)
Flatten(ss) == IF ss = <<>> THEN <<>> ELSE Head(ss) \o Flatten(Tail(ss))

\* C3: during the scan and after it, the lines consumed so far are accounted
\* for exactly once: the heading lines are the headings, the list-item lines
\* are the items of the lists (closed, then open), the plain lines are the
\* text of the paragraphs (closed, then open); after the return nothing is
\* left in an open paragraph or list only.
C3_EveryLineOnce ==
    /\ pc = "scan" =>
           LET done == SubSeq(lines, 1, idx)
           IN /\ structure.headings = HeadingsOfLines(done)
              /\ Flatten(structure.lists) \o list_items = ItemsOfLines(done)
              /\ Join(structure.paragraphs \o current_paragraph, <<32>>)
                     = Join(PlainOfLines(done), <<32>>)
              /\ Len(structure.paragraphs) + Len(current_paragraph)
                     <= Len(PlainOfLines(done))
    /\ ExtractDone =>
           /\ structure.headings = HeadingsOfLines(Split(text))
           /\ Flatten(structure.lists) = ItemsOfLines(Split(text))
           /\ Join(structure.paragraphs, <<32>>)
                  = Join(PlainOfLines(Split(text)), <<32>>)
           /\ \A k \in 1..Len(structure.lists) : structure.lists[k] # <<>>

\* C3's case: the input ends inside an open list, after a heading and a
\* paragraph, and extract_structure has returned.
C3_Witness ==
    /\ pc = "extracted"
    /\ in_list
    /\ NumHeadings >= 1
    /\ NumParagraphs >= 1
    /\ NumLists >= 1

\* Every line of the text is a plain line after trimming.
AllPlain ==
    \A k \in 1..Len(Split(text)) : IsPlainLine(Strip(Split(text)[k]))

RECURSIVE StripAll(_)
StripAll(ls) ==
    IF ls = <<>> THEN <<>> ELSE <<Strip(Head(ls))>> \o StripAll(Tail(ls))

\* C9: for a text of plain lines only, the result of extract_structure is
\* one paragraph, the trimmed lines joined by single spaces, no heading and
\* no list.
C9_PlainTextOneParagraph ==
    (ExtractDone /\ AllPlain) =>
        /\ structure.headings = <<>>
        /\ structure.lists = <<>>
        /\ structure.paragraphs = << Join(StripAll(Split(text)), <<32>>) >>

\* C9's case: several plain lines, one of them with surrounding blanks.
C9_Witness ==
    /\ pc = "extracted"
    /\ AllPlain
    /\ Len(lines) >= 2
    /\ \E k \in 1..Len(lines) : Strip(lines[k]) # lines[k]

AddErrors == {"add_heading", "add_paragraph", "add_list", "add_text"}

\* C4: whichever backend writes fail, no add operation lets an exception
\* reach its caller.
C4_NoExceptionFromAdd == error \notin AddErrors

\* C5: when the document's output is refused for its content (and the
\* location accepts the error PDF), generate_pdf returns the output path
\* without raising and the file holds exactly the two fixed lines.
C5_ContentFailureFallback ==
    (env.first = "content" /\ env.second = "ok") =>
        /\ error = "none"
        /\ result = "output_path"
        /\ pc \in {"generated", "success"}
        /\ disk.kind = "pdf"
        /\ Len(disk.cells) = 2
        /\ disk.cells[1].txt = ErrorLine1
        /\ disk.cells[2].txt = ErrorLine2

\* C5's case: blocks were rendered, the output was refused for content and
\* the caller went on to report success.
C5_Witness ==
    /\ env.first = "content"
    /\ env.second = "ok"
    /\ page # <<>>
    /\ pc = "success"

C7_SanitizedIsAscii ==
    \A k \in 1..Len(san) : \A j \in 1..Len(san[k]) : san[k][j] <= 127

\* C7's case: a text with a table character (bullet), a non-ASCII character
\* outside the table (right single quotation mark) and U+0080 was sanitized.
C7_Witness ==
    /\ Len(san) >= 1
    /\ \E j \in 1..Len(text) : text[j] = 8226
    /\ \E j \in 1..Len(text) : text[j] = 8217
    /\ \E j \in 1..Len(text) : text[j] = 128

\* C8: sanitizing a sanitized text changes nothing.
C8_Idempotent ==
    Len(san) = 2 => san[2] = san[1]

\* C10: between add operations the current font is the body font, and every
\* cell written by add_paragraph, add_list or add_text was written in it.
C10_BodyFontAfterAdd ==
    /\ pc = "idle" => font = BodyFont
    /\ \A k \in 1..Len(page) :
           page[k].by \in {"paragraph", "list", "text"} =>
               page[k].font = BodyFont

\* C10's case: a heading whose text was replaced by its placeholder, then
\* plain text written by add_text, which sets no font itself.
C10_Witness ==
    /\ pc = "idle"
    /\ Len(calls) >= 2
    /\ calls[1].kind = "heading"
    /\ calls[1].level = 1
    /\ calls[2].kind = "text"
    /\ Len(page) >= 2
    /\ page[1].txt = HeadingPlaceholder(1)
    /\ page[2].by = "text"

====
